---- MODULE Spec2Model ----
(***************************************************************************)
(* AnDA_analog_forecasting(x, AF): analog forecasting of an ensemble x     *)
(* from a catalog of (analog, successor) pairs.                            *)
(*                                                                         *)
(* Arrays keep the 0-based indices of the source: a matrix is a function   *)
(* from 0..rows-1 to functions from 0..cols-1.  Catalog and ensemble       *)
(* entries are integers.  Computed reals are exact fractions <<num, den>>  *)
(* in lowest terms with the IEEE specials the source can produce:          *)
(* <<0,0>> is NaN, <<1,0>> is +inf and <<-1,0>> is -inf.  sqrt and exp are *)
(* evaluated in fixed point (DistScale, KernelScale).                      *)
(***************************************************************************)
EXTENDS Integers, Sequences, FiniteSets

(***************************************************************************)
(* Bounds of the model.                                                    *)
(***************************************************************************)
MaxN == 2

MaxK == 2

(***************************************************************************)
(* Real arithmetic with NaN and infinities (numpy float64 semantics for    *)
(* division by zero: x/0 = +-inf, 0/0 = NaN, inf*0 = NaN, inf-inf = NaN).  *)
(***************************************************************************)
Abs(a) == IF a < 0 THEN -a ELSE a

Sign(a) == IF a < 0 THEN -1 ELSE IF a > 0 THEN 1 ELSE 0

RECURSIVE GCD(_, _)
GCD(a, b) == IF b = 0 THEN a ELSE GCD(b, a % b)

NaN == <<0, 0>>

Rat(a, b) ==
    IF b = 0 THEN <<Sign(a), 0>>
    ELSE LET g == GCD(Abs(a), Abs(b))
         IN  <<(Sign(b) * a) \div g, Abs(b) \div g>>

FromInt(v) == <<v, 1>>

Zero == FromInt(0)

One == FromInt(1)

IsNaN(p) == p = NaN

IsInf(p) == p[2] = 0 /\ p[1] # 0

IsFinite(p) == p[2] # 0

RNeg(p) == <<-p[1], p[2]>>

RAdd(p, q) ==
    IF IsNaN(p) \/ IsNaN(q) THEN NaN
    ELSE IF IsInf(p) /\ IsInf(q) THEN (IF p = q THEN p ELSE NaN)
    ELSE IF IsInf(p) THEN p
    ELSE IF IsInf(q) THEN q
    ELSE LET g == GCD(p[2], q[2])
         IN  Rat(p[1] * (q[2] \div g) + q[1] * (p[2] \div g), (p[2] \div g) * q[2])

RSub(p, q) == RAdd(p, RNeg(q))

RMul(p, q) ==
    IF IsNaN(p) \/ IsNaN(q) THEN NaN
    ELSE IF IsInf(p) \/ IsInf(q) THEN <<Sign(p[1]) * Sign(q[1]), 0>>
    ELSE LET g1 == GCD(Abs(p[1]), q[2])
             g2 == GCD(Abs(q[1]), p[2])
         IN  Rat((p[1] \div g1) * (q[1] \div g2), (p[2] \div g2) * (q[2] \div g1))

RInv(p) ==
    IF IsNaN(p) THEN NaN
    ELSE IF IsInf(p) THEN Zero
    ELSE IF p[1] = 0 THEN <<1, 0>>
    ELSE Rat(p[2], p[1])

RDiv(p, q) == RMul(p, RInv(q))

RLess(p, q) == IsFinite(p) /\ IsFinite(q) /\ p[1] * q[2] < q[1] * p[2]

\* np.sum over the entries f[i], i in lo..hi
RECURSIVE RSum(_, _, _)
RSum(f, lo, hi) == IF lo > hi THEN Zero ELSE RAdd(f[lo], RSum(f, lo + 1, hi))

(***************************************************************************)
(* Fixed-point sqrt and exp.  A distance is an integer number of           *)
(* 1/DistScale units; a kernel value is an integer number of 1/KernelScale *)
(* units.  float64 exp(-t) is positive up to t = ExpUnderflow and 0.0      *)
(* beyond it, so a kernel value keeps at least one unit up to there.       *)
(***************************************************************************)
DistScale == 100

KernelScale == 100

ExpUnderflow == 745

\* the largest r + m*step (m >= 0) whose square is at most v
RECURSIVE ISqrtStep(_, _, _)
ISqrtStep(v, r, step) ==
    IF (r + step) * (r + step) > v THEN r ELSE ISqrtStep(v, r + step, step)

\* np.sqrt of an integer v, in 1/DistScale units
Sqrt(v) ==
    LET V == v * DistScale * DistScale
    IN  ISqrtStep(V, ISqrtStep(V, ISqrtStep(V, 0, 100), 10), 1)

RECURSIVE ExpNegInt(_)
ExpNegInt(m) == IF m = 0 THEN KernelScale
                ELSE IF m > 12 THEN 0
                ELSE (ExpNegInt(m - 1) * 3679) \div 10000

\* exp(-f/KernelScale) for 0 <= f < KernelScale, by its Taylor series
ExpNegFrac(f) ==
    LET t2 == (f * f) \div (2 * KernelScale)
        t3 == (t2 * f) \div (3 * KernelScale)
        t4 == (t3 * f) \div (4 * KernelScale)
        t5 == (t4 * f) \div (5 * KernelScale)
    IN  KernelScale - f + t2 - t3 + t4 - t5

\* np.exp(-p/q) for integers p >= 0, q > 0, in 1/KernelScale units
ExpNeg(p, q) ==
    LET m == p \div q
        f == ((p % q) * KernelScale) \div q
        v == (ExpNegInt(m) * ExpNegFrac(f)) \div KernelScale
    IN  IF m > ExpUnderflow THEN 0 ELSE IF v < 1 THEN 1 ELSE v

(***************************************************************************)
(* numpy index arrays: sequences of 0-based indices.                       *)
(***************************************************************************)
Arange(m) == [j \in 1..m |-> j - 1]

Range(s) == {s[j] : j \in 1..Len(s)}

RECURSIVE WhereFrom(_, _, _)
WhereFrom(row, j, m) ==
    IF j >= m THEN <<>>
    ELSE IF row[j] = 1 THEN <<j>> \o WhereFrom(row, j + 1, m)
    ELSE WhereFrom(row, j + 1, m)

\* np.where(row == 1)[0] for a row of m entries
Where1(row, m) == WhereFrom(row, 0, m)

RECURSIVE MaxOf(_)
MaxOf(s) == IF Len(s) = 1 THEN s[1]
            ELSE LET r == MaxOf(Tail(s)) IN IF s[1] > r THEN s[1] ELSE r

Rows(A) == Cardinality(DOMAIN A)

Matrices(r, c, S) == [0..(r - 1) -> [0..(c - 1) -> S]]

Zeros(r, c) == [i \in 0..(r - 1) |-> [j \in 0..(c - 1) |-> Zero]]

Ones(m) == [i \in 0..(m - 1) |-> [j \in 0..(m - 1) |-> 1]]

(***************************************************************************)
(* State: the arguments of the call (x and the fields of AF), the locals   *)
(* of AnDA_analog_forecasting, and the position in it.                     *)
(*   pc = "while"  at the loop test (line 27)                              *)
(*   pc = "for"    at the member loop (line 53), i_N the next member       *)
(*   pc = "return" after line 172                                          *)
(*   pc = "quit"   after quit() (lines 122, 163)                           *)
(*   pc = "error"  after an exception left the function                    *)
(* visited records the target block i_var of every started loop body.      *)
(***************************************************************************)
VARIABLES x, analogs, successors, neighborhood, k, regression, sampling,
          xf, xf_mean, stop_condition, i_var, i_var_neighboor,
          dist_knn, index_knn, lambdaa, weights, i_N, xf_tmp, cov_xf,
          pc, visited

args == <<x, analogs, successors, neighborhood, k, regression, sampling>>

retrieval == <<i_var_neighboor, dist_knn, index_knn, lambdaa>>

vars == <<x, analogs, successors, neighborhood, k, regression, sampling,
          xf, xf_mean, stop_condition, i_var, i_var_neighboor,
          dist_knn, index_knn, lambdaa, weights, i_N, xf_tmp, cov_xf,
          pc, visited>>

N == Rows(x)

n == Rows(x[0])

Regressions == {"locally_constant", "increment", "local_linear"}

Samplings == {"gaussian", "multinomial"}

(***************************************************************************)
(* Neighbor retrieval (lines 39-41).                                       *)
(***************************************************************************)
RECURSIVE SqDistOver(_, _, _)
SqDistOver(a, b, cols) ==
    IF cols = <<>> THEN 0
    ELSE (a[cols[1]] - b[cols[1]]) * (a[cols[1]] - b[cols[1]])
         + SqDistOver(a, b, Tail(cols))

\* euclidean distance of member i to catalog row j over the columns ctx
Dist(i, j, ctx) == Sqrt(SqDistOver(x[i], analogs[j], ctx))

\* the rows kdt.query may return for member i: kk distinct catalog rows,
\* nearest first, none farther than a row left out; ties in any order
KnnRows(i, ctx, kk) ==
    LET M == Rows(analogs)
    IN  {r \in [0..(kk - 1) -> 0..(M - 1)] :
            /\ \A a, b \in 0..(kk - 1) : a < b =>
                  /\ r[a] # r[b]
                  /\ Dist(i, r[a], ctx) <= Dist(i, r[b], ctx)
            /\ \A j \in 0..(M - 1) :
                  (\A a \in 0..(kk - 1) : r[a] # j)
                      => Dist(i, j, ctx) >= Dist(i, r[kk - 1], ctx)}

RECURSIVE KnnSeqs(_, _, _)
KnnSeqs(m, ctx, kk) ==
    IF m = 0 THEN {<<>>}
    ELSE {Append(t, r) : t \in KnnSeqs(m - 1, ctx, kk), r \in KnnRows(m - 1, ctx, kk)}

\* every index_knn that kdt.query(x[:,ctx], kk) may return
KnnTables(ctx, kk) == {[i \in 0..(N - 1) |-> t[i + 1]] : t \in KnnSeqs(N, ctx, kk)}

DistTable(idx, ctx, kk) ==
    [i \in 0..(N - 1) |-> [r \in 0..(kk - 1) |-> Dist(i, idx[i][r], ctx)]]

(***************************************************************************)
(* Kernel bandwidth and weights (lines 43-50).                             *)
(***************************************************************************)
\* the j-th smallest (j = 1 the smallest) entry of the table d
KthSmallest(d, kk, j) ==
    LET cells == (0..(N - 1)) \X (0..(kk - 1))
        below(v) == Cardinality({c \in cells : d[c[1]][c[2]] < v})
        upto(v) == Cardinality({c \in cells : d[c[1]][c[2]] <= v})
    IN  CHOOSE v \in {d[c[1]][c[2]] : c \in cells} : below(v) < j /\ j <= upto(v)

\* np.median(dist_knn), in 1/DistScale units
Median(d, kk) ==
    LET cnt == N * kk
    IN  IF cnt % 2 = 1 THEN FromInt(KthSmallest(d, kk, (cnt + 1) \div 2))
        ELSE Rat(KthSmallest(d, kk, cnt \div 2) + KthSmallest(d, kk, cnt \div 2 + 1), 2)

\* np.exp(-np.power(dist,2)/lam) for one entry, as a real
Kernel(dist, lam) ==
    IF lam[1] = 0
    THEN (IF dist = 0 THEN NaN ELSE Zero)
    ELSE Rat(ExpNeg(dist * dist * lam[2], DistScale * lam[1]), KernelScale)

\* mk_stochastic: every row divided by its sum
mk_stochastic(T, kk) ==
    [i \in DOMAIN T |-> [r \in 0..(kk - 1) |-> RDiv(T[i][r], RSum(T[i], 0, kk - 1))]]

\* Weights without the k = 1 case of line 47
WeightsNoSingleNeighbor(d, lam, kk) ==
    mk_stochastic([i \in 0..(N - 1) |->
                      [r \in 0..(kk - 1) |-> Kernel(d[i][r], lam)]], kk)

Weights(d, lam, kk) ==
    IF kk = 1 THEN [i \in 0..(N - 1) |-> [r \in 0..0 |-> One]]
    ELSE mk_stochastic([i \in 0..(N - 1) |->
                           [r \in 0..(kk - 1) |-> Kernel(d[i][r], lam)]], kk)

(***************************************************************************)
(* Local estimator for member i (lines 55-122).  A regression outcome is a *)
(* record: exit ("none", or "error" / "quit" when an exception or quit()   *)
(* ended the call before anything was written), tmp (xf_tmp), mean (the    *)
(* new xf_mean[i, i_var]), cov (cov_xf) and w (the weight row of member i  *)
(* after the branch).                                                      *)
(***************************************************************************)
TargetCols == Range(i_var)

\* np.zeros([AF.k, np.max(i_var)+1])   (line 56)
TmpZeros == Zeros(k, MaxOf(i_var) + 1)

\* sum over the neighbors r of f[r] * w[r]
WSum(f, w) == RSum([r \in 0..(k - 1) |-> RMul(f[r], w[r])], 0, k - 1)

SumSq(w) == RSum([r \in 0..(k - 1) |-> RMul(w[r], w[r])], 0, k - 1)

\* xf_tmp with its target columns set to cand[r][c]
TmpWith(cand) ==
    [r \in 0..(k - 1) |->
        [c \in 0..MaxOf(i_var) |-> IF c \in TargetCols THEN cand[r][c] ELSE Zero]]

\* lines 65 and 76: the weighted mean of the candidates, per target column
WeightedMean(tmp, w) ==
    [c \in TargetCols |-> WSum([r \in 0..(k - 1) |-> tmp[r][c]], w)]

\* lines 66-67 and 77-78: E_xf and the weighted covariance with the
\* normalizer 1/(1 - sum w^2)
WeightedCov(tmp, mean, w) ==
    LET E(c, r) == RSub(tmp[r][c], mean[c])
        norm == RInv(RSub(One, SumSq(w)))
    IN  [a \in TargetCols |-> [b \in TargetCols |->
            RMul(norm, WSum([r \in 0..(k - 1) |-> RMul(E(a, r), E(b, r))], w))]]

\* the outcome of a branch that raised or quit before writing
Exited(how) == [exit |-> how, tmp |-> TmpZeros, mean |-> <<>>, cov |-> <<>>, w |-> <<>>]

\* np.ix_(index_knn[i,:], i_var) indexes successors within its rows
SuccessorsInRange(i) == \A r \in 0..(k - 1) : index_knn[i][r] \in DOMAIN successors

\* lines 59-67
LocallyConstant(i) ==
    IF ~SuccessorsInRange(i)
    THEN {Exited("error")}
    ELSE LET tmp == TmpWith([r \in 0..(k - 1) |-> [c \in TargetCols |->
                        FromInt(successors[index_knn[i][r]][c])]])
             mean == WeightedMean(tmp, weights[i])
         IN  {[exit |-> "none", tmp |-> tmp, mean |-> mean,
               cov |-> WeightedCov(tmp, mean, weights[i]), w |-> weights[i]]}

\* lines 70-78
Increment(i) ==
    IF ~SuccessorsInRange(i)
    THEN {Exited("error")}
    ELSE LET tmp == TmpWith([r \in 0..(k - 1) |-> [c \in TargetCols |->
                        FromInt(x[i][c] + successors[index_knn[i][r]][c]
                                - analogs[index_knn[i][r]][c])]])
             mean == WeightedMean(tmp, weights[i])
         IN  {[exit |-> "none", tmp |-> tmp, mean |-> mean,
               cov |-> WeightedCov(tmp, mean, weights[i]), w |-> weights[i]]}

(***************************************************************************)
(* Local-linear regression (lines 81-117), in exact arithmetic.            *)
(*  - the k neighbors share one context row (always so for k = 1): Xc = 0, *)
(*    no component is kept, the regression is the intercept alone;         *)
(*  - k = 2 with two context rows: Xc has rank 1, one component is kept,   *)
(*    the line through the two neighbors fits them exactly (res = 0,       *)
(*    1 - trace(Cxx2 inv_Cxx) = 0);                                        *)
(*  - k >= 3: the fit depends on the singular values of Xc; the model      *)
(*    draws the shift of the prediction from the weighted mean from        *)
(*    LLShift and keeps the residuals about the weighted mean.             *)
(* Non-finite weights make svd/inv raise.                                  *)
(***************************************************************************)
LLShift == {Zero, One}

RECURSIVE DotOver(_, _, _)
DotOver(a, b, cols) ==
    IF cols = <<>> THEN 0 ELSE a[cols[1]] * b[cols[1]] + DotOver(a, b, Tail(cols))

Uniform == [r \in 0..(k - 1) |-> Rat(1, k)]

LocalLinear(i) ==
    LET w == weights[i]
        ctx == i_var_neighboor
        X(r) == analogs[index_knn[i][r]]
        Y(r, c) == FromInt(successors[index_knn[i][r]][c])
        same == \A r \in 0..(k - 1) : \A c \in Range(ctx) : X(r)[c] = X(0)[c]
        Ybar == [c \in TargetCols |-> WSum([r \in 0..(k - 1) |-> Y(r, c)], w)]
        about(mean, scale) ==
            LET res(c, r) == RSub(Y(r, c), Ybar[c])
                norm == RInv(RSub(One, SumSq(w)))
            IN  [exit |-> "none",
                 tmp |-> TmpWith([r \in 0..(k - 1) |-> [c \in TargetCols |->
                            RAdd(mean[c], res(c, r))]]),
                 mean |-> mean,
                 cov |-> [a \in TargetCols |-> [b \in TargetCols |->
                            RMul(RMul(WSum([r \in 0..(k - 1) |->
                                           RMul(res(a, r), res(b, r))], w), norm),
                                 scale)]],
                 w |-> Uniform]
    IN  IF ~SuccessorsInRange(i) \/ \E r \in 0..(k - 1) : ~IsFinite(w[r])
        THEN {Exited("error")}
        ELSE IF same
        THEN {about(Ybar, RAdd(One, SumSq(w)))}
        ELSE IF k = 2
        THEN LET u == [c \in Range(ctx) |-> X(1)[c] - X(0)[c]]
                 d == [c \in Range(ctx) |-> x[i][c] - X(0)[c]]
                 t == Rat(DotOver(d, u, ctx), DotOver(u, u, ctx))
                 mean == [c \in TargetCols |->
                             RAdd(Y(0, c), RMul(RSub(Y(1, c), Y(0, c)), t))]
             IN  {[exit |-> "none",
                   tmp |-> TmpWith([r \in 0..(k - 1) |-> mean]),
                   mean |-> mean,
                   cov |-> [a \in TargetCols |-> [b \in TargetCols |-> NaN]],
                   w |-> Uniform]}
        ELSE {about([c \in TargetCols |-> RAdd(Ybar[c], s)], RAdd(One, SumSq(w))) :
                 s \in LLShift}

\* lines 59, 70, 81 and 119-122
RegressionOutcomes(i) ==
    CASE regression = "locally_constant" -> LocallyConstant(i)
      [] regression = "increment" -> Increment(i)
      [] regression = "local_linear" -> LocalLinear(i)
      [] OTHER -> {Exited("quit")}

(***************************************************************************)
(* Sampling (lines 149-163).  A sampling outcome is a record: exit and xs, *)
(* the new xf[i, i_var].                                                   *)
(***************************************************************************)
GaussDraws == {FromInt(-1), One}

\* np.random.multivariate_normal(mean, cov): mean plus a draw that is 0
\* where the variance is 0; a non-finite mean or cov makes its svd raise
\* or yields NaN, depending on the LAPACK build
Gaussian(o) ==
    IF \E a \in TargetCols : ~IsFinite(o.mean[a])
                             \/ \E b \in TargetCols : ~IsFinite(o.cov[a][b])
    THEN {[exit |-> "error", xs |-> <<>>],
          [exit |-> "none", xs |-> [c \in TargetCols |-> NaN]]}
    ELSE {[exit |-> "none", xs |-> [c \in TargetCols |-> RAdd(o.mean[c], z[c])]] :
             z \in {f \in [TargetCols -> GaussDraws \cup {Zero}] :
                       \A c \in TargetCols : (f[c] = Zero) <=> (o.cov[c][c] = Zero)}}

\* sample_discrete(w, 1, 1): an index drawn with the probabilities w
sample_discrete(w) ==
    LET pos == {r \in 0..(k - 1) : RLess(Zero, w[r])}
    IN  IF pos # {} /\ \A r \in 0..(k - 1) : IsFinite(w[r]) /\ ~RLess(w[r], Zero)
        THEN pos
        ELSE 0..(k - 1)

\* Multinomial returning the weighted mean of the candidates
MultinomialMean(o) ==
    {[exit |-> "none", xs |-> [c \in TargetCols |-> o.mean[c]]]}

\* lines 157-158
Multinomial(o) ==
    {[exit |-> "none", xs |-> [c \in TargetCols |-> o.tmp[i_good][c]]] :
        i_good \in sample_discrete(o.w)}

\* SamplingOutcomes without the else branch of lines 160-163
SamplingOutcomesNoElse(o) ==
    CASE sampling = "gaussian" -> Gaussian(o)
      [] sampling = "multinomial" -> Multinomial(o)
      [] OTHER -> {[exit |-> "none", xs |-> [c \in TargetCols |-> xf[i_N][c]]]}

\* lines 150, 155 and 160-163
SamplingOutcomes(o) ==
    CASE sampling = "gaussian" -> Gaussian(o)
      [] sampling = "multinomial" -> Multinomial(o)
      [] OTHER -> {[exit |-> "quit", xs |-> <<>>]}

\* WriteRow assigning the whole row i
WriteRowWhole(A, i, v) ==
    [A EXCEPT ![i] = [c \in 0..(n - 1) |-> IF c \in TargetCols THEN v[c] ELSE Zero]]

\* the array A with A[i, i_var] = v
WriteRow(A, i, v) ==
    [A EXCEPT ![i] = [c \in 0..(n - 1) |-> IF c \in TargetCols THEN v[c] ELSE @[c]]]

(***************************************************************************)
(* The call.  Init is the state after lines 20-24.                         *)
(***************************************************************************)
Entry ==
    /\ xf = Zeros(N, n)
    /\ xf_mean = Zeros(N, n)
    /\ stop_condition = 0
    /\ i_var = <<0>>
    /\ i_var_neighboor = <<>>
    /\ dist_knn = <<>>
    /\ index_knn = <<>>
    /\ lambdaa = Zero
    /\ weights = <<>>
    /\ i_N = 0
    /\ xf_tmp = <<>>
    /\ cov_xf = <<>>
    /\ pc = "while"
    /\ visited = <<>>

\* lines 30-37: i_var_neighboor of the block that starts at i_var
BlockContext ==
    IF neighborhood = Ones(n) THEN Arange(n) ELSE Where1(neighborhood[i_var[1]], n)

\* lines 27-50: the loop test, the choice of the block, the neighbor
\* retrieval and the weights
WhileEnter ==
    /\ pc = "while"
    /\ stop_condition # 1
    /\ LET global == neighborhood = Ones(n)
           ctx == BlockContext
           target == IF global THEN Arange(n) ELSE i_var
       IN  /\ i_var' = target
           /\ i_var_neighboor' = ctx
           /\ stop_condition' = IF global THEN 1 ELSE stop_condition
           /\ visited' = Append(visited, target)
           /\ IF ctx = <<>> \/ k > Rows(analogs)
              THEN \* KDTree rejects an empty array; query rejects k > rows
                   /\ pc' = "error"
                   /\ UNCHANGED <<dist_knn, index_knn, lambdaa, weights, i_N>>
              ELSE \E idx \in KnnTables(ctx, k) :
                      /\ index_knn' = idx
                      /\ dist_knn' = DistTable(idx, ctx, k)
                      /\ lambdaa' = Median(dist_knn', k)
                      /\ weights' = Weights(dist_knn', lambdaa', k)
                      /\ i_N' = 0
                      /\ pc' = "for"
    /\ UNCHANGED <<args, xf, xf_mean, xf_tmp, cov_xf>>

\* lines 53-163 for member i_N: regression, then sampling
Member ==
    /\ pc = "for"
    /\ i_N < N
    /\ \E o \in RegressionOutcomes(i_N) :
          /\ xf_tmp' = o.tmp
          /\ IF o.exit # "none"
             THEN /\ pc' = o.exit
                  /\ UNCHANGED <<xf, xf_mean, weights, cov_xf, i_N>>
             ELSE /\ xf_mean' = WriteRow(xf_mean, i_N, o.mean)
                  /\ cov_xf' = o.cov
                  /\ weights' = [weights EXCEPT ![i_N] = o.w]
                  /\ \E sm \in SamplingOutcomes(o) :
                        IF sm.exit # "none"
                        THEN /\ pc' = sm.exit
                             /\ UNCHANGED <<xf, i_N>>
                        ELSE /\ xf' = WriteRow(xf, i_N, sm.xs)
                             /\ i_N' = i_N + 1
                             /\ pc' = "for"
    /\ UNCHANGED <<args, retrieval, stop_condition, i_var, visited>>

\* StopCondition comparing the cursor with n-2
StopConditionEarly ==
    /\ pc = "for"
    /\ i_N = N
    /\ IF i_var = <<n - 2>> \/ Len(i_var) = n
       THEN /\ stop_condition' = 1
            /\ i_var' = i_var
       ELSE /\ i_var' = [j \in 1..Len(i_var) |-> i_var[j] + 1]
            /\ stop_condition' = stop_condition
    /\ pc' = "while"
    /\ UNCHANGED <<args, retrieval, xf, xf_mean, weights, i_N, xf_tmp, cov_xf, visited>>

\* lines 165-170
StopCondition ==
    /\ pc = "for"
    /\ i_N = N
    /\ IF i_var = <<n - 1>> \/ Len(i_var) = n
       THEN /\ stop_condition' = 1
            /\ i_var' = i_var
       ELSE /\ i_var' = [j \in 1..Len(i_var) |-> i_var[j] + 1]
            /\ stop_condition' = stop_condition
    /\ pc' = "while"
    /\ UNCHANGED <<args, retrieval, xf, xf_mean, weights, i_N, xf_tmp, cov_xf, visited>>

\* line 27 with stop_condition = 1, then line 172
Return ==
    /\ pc = "while"
    /\ stop_condition = 1
    /\ pc' = "return"
    /\ UNCHANGED <<args, retrieval, xf, xf_mean, stop_condition, i_var, weights,
                   i_N, xf_tmp, cov_xf, visited>>

Next == WhileEnter \/ Member \/ StopCondition \/ Return

(***************************************************************************)
(* The calls checked.  An ensemble has 1..MaxN members that differ in      *)
(* variable 0.  A catalog is a sequence of (analog, successor) pairs drawn *)
(* from three: the zero state and the unit state, both unchanged by a      *)
(* step, and the all-ones state, which a step takes to all-twos.  The      *)
(* members and the catalog rows are processed alike whatever their order,  *)
(* so ensembles and catalogs are listed in one order only.  Every binary   *)
(* neighborhood, k in 1..MaxK, the three regressions and the two           *)
(* samplings, and one unrecognized value of each.                          *)
(***************************************************************************)
NVars == {1, 2}

Vals == {0, 1}

CatalogRows == {1, 2}

RegressionArgs == Regressions \cup {"global_linear"}

SamplingArgs == Samplings \cup {"bootstrap"}

Const(nn, v) == [c \in 0..(nn - 1) |-> v]

Unit(nn) == [c \in 0..(nn - 1) |-> IF c = nn - 1 THEN 1 ELSE 0]

XRows(nn) == {[c \in 0..(nn - 1) |-> IF c = 0 THEN v ELSE 0] : v \in Vals}

Ensembles(nn) ==
    UNION {{e \in [0..(NN - 1) -> XRows(nn)] :
               \A a, b \in 0..(NN - 1) : a < b => e[a][0] <= e[b][0]} : NN \in 1..MaxN}

CatalogPairs(nn) ==
    <<  <<Const(nn, 0), Const(nn, 0)>>,
        <<Unit(nn), Unit(nn)>>,
        <<Const(nn, 1), Const(nn, 2)>>  >>

Catalogs(nn) ==
    UNION {{[j \in 0..(M - 1) |-> CatalogPairs(nn)[p[j]]] :
               p \in {q \in [0..(M - 1) -> 1..3] :
                         \A a, b \in 0..(M - 1) : a < b => q[a] <= q[b]}} :
           M \in CatalogRows}

Neighborhoods(nn) == Matrices(nn, nn, {0, 1})

Init ==
    /\ \E nn \in NVars :
          /\ x \in Ensembles(nn)
          /\ \E cat \in Catalogs(nn) :
                /\ analogs = [j \in DOMAIN cat |-> cat[j][1]]
                /\ successors = [j \in DOMAIN cat |-> cat[j][2]]
          /\ neighborhood \in Neighborhoods(nn)
    /\ k \in 1..MaxK
    /\ regression \in RegressionArgs
    /\ sampling \in SamplingArgs
    /\ Entry

Spec == Init /\ [][Next]_vars

(***************************************************************************)
(* Calls with an inconsistent catalog: analogs and successors of different *)
(* row counts, or k larger than the number of analogs.                     *)
(***************************************************************************)
SuccessorRows == {1, 2, 3}

SuccessorTables(nn) ==
    UNION {{[j \in 0..(M - 1) |-> CatalogPairs(nn)[p[j]][2]] :
               p \in {q \in [0..(M - 1) -> 1..3] :
                         \A a, b \in 0..(M - 1) : a < b => q[a] <= q[b]}} :
           M \in SuccessorRows}

Identity(nn) == [i \in 0..(nn - 1) |-> [j \in 0..(nn - 1) |-> IF i = j THEN 1 ELSE 0]]

Inconsistent == Rows(analogs) # Rows(successors) \/ k > Rows(analogs)

InitShape ==
    /\ \E nn \in NVars :
          /\ x \in Ensembles(nn)
          /\ \E cat \in Catalogs(nn) : analogs = [j \in DOMAIN cat |-> cat[j][1]]
          /\ successors \in SuccessorTables(nn)
          /\ neighborhood \in {Ones(nn), Identity(nn)}
    /\ k \in 1..(MaxK + 1)
    /\ regression \in Regressions
    /\ sampling \in Samplings
    /\ Inconsistent
    /\ Entry

SpecShape == InitShape /\ [][Next]_vars

(***************************************************************************)
(* The block loop over every binary neighborhood of 1 to 3 variables.  The *)
(* call is sequential: a step that can be taken is taken.                  *)
(***************************************************************************)
LoopVars == {1, 2, 3}

InitLoop ==
    /\ \E nn \in LoopVars :
          /\ \E NN \in 1..MaxN : x = [i \in 0..(NN - 1) |-> Const(nn, 0)]
          /\ analogs = [j \in 0..1 |-> CatalogPairs(nn)[j + 2][1]]
          /\ successors = [j \in 0..1 |-> CatalogPairs(nn)[j + 2][2]]
          /\ neighborhood \in Neighborhoods(nn)
    /\ k \in 1..MaxK
    /\ regression \in {"locally_constant", "global_linear"}
    /\ sampling \in {"multinomial", "bootstrap"}
    /\ Entry

SpecLoop == InitLoop /\ [][Next]_vars /\ WF_vars(Next)

(***************************************************************************)
(* Claims.                                                                 *)
(***************************************************************************)
Final == {"return", "quit", "error"}

GlobalMode == neighborhood = Ones(n)

\* the members of the current block whose iteration is complete
DoneMembers == IF pc = "for" THEN 0..(i_N - 1) ELSE {}

\* C1: with locally-constant regression and k = 1, the forecast mean of
\* every processed member equals, in every target variable of the block,
\* the successor of the one catalog row retrieved for it, which is a
\* nearest analog over the block's context, and its weight is 1.
C1_MeanIsNearestSuccessor ==
    (regression = "locally_constant" /\ k = 1) =>
        \A i \in DoneMembers :
            /\ weights[i][0] = One
            /\ \A j \in DOMAIN analogs :
                  Dist(i, index_knn[i][0], i_var_neighboor) <= Dist(i, j, i_var_neighboor)
            /\ \A c \in TargetCols :
                  xf_mean[i][c] = FromInt(successors[index_knn[i][0]][c])

C1_Witness ==
    /\ regression = "locally_constant" /\ k = 1
    /\ pc = "for" /\ N = 2 /\ i_N = 2
    /\ index_knn[0][0] # index_knn[1][0]
    /\ \E c \in TargetCols : xf_mean[0][c] = Zero /\ xf_mean[1][c] = FromInt(2)

\* C2: with incremental regression and a catalog whose successors equal
\* its analogs row by row, the forecast mean of every processed member
\* equals the member's current value in every target variable.
C2_NoChangeKeepsValue ==
    (regression = "increment" /\ \A j \in DOMAIN analogs : successors[j] = analogs[j]) =>
        \A i \in DoneMembers : \A c \in TargetCols : xf_mean[i][c] = FromInt(x[i][c])

\* C3: in every block and for every member the weight row is non-negative
\* and sums to 1, and it is uniform 1/k once the local-linear branch has
\* run for the member, whatever the neighbor distances (median 0 included).
C3_WeightsRowStochastic ==
    pc = "for" =>
        \A i \in 0..(N - 1) :
            /\ \A r \in 0..(k - 1) : IsFinite(weights[i][r]) /\ ~RLess(weights[i][r], Zero)
            /\ RSum(weights[i], 0, k - 1) = One
            /\ (regression = "local_linear" /\ i < i_N) => weights[i] = Uniform

\* C4: with multinomial sampling the sample written to the target columns
\* of the member just processed is one row of its candidate table xf_tmp.
C4_MultinomialPicksCandidate ==
    (sampling = "multinomial" /\ pc = "for" /\ i_N > 0) =>
        \E r \in 0..(k - 1) : \A c \in TargetCols : xf[i_N - 1][c] = xf_tmp[r][c]

C4_Witness ==
    /\ sampling = "multinomial" /\ pc = "for" /\ i_N > 0 /\ k = 2
    /\ \E c \in TargetCols :
          /\ xf_tmp[0][c] # xf_tmp[1][c]
          /\ xf[i_N - 1][c] = xf_tmp[1][c]
          /\ xf[i_N - 1][c] # xf_mean[i_N - 1][c]

BadConfig == regression \notin Regressions \/ sampling \notin Samplings

C6_ShapeRejectedAtEntry ==
    Inconsistent =>
        /\ index_knn = <<>>
        /\ xf = Zeros(N, n) /\ xf_mean = Zeros(N, n)
        /\ pc # "return"

\* the targets of the loop bodies a complete call runs
ExpectedBlocks == IF GlobalMode THEN <<Arange(n)>> ELSE [j \in 1..n |-> <<j - 1>>]

\* the steps a call can still take: a bound on what is left of the loop
Variant ==
    IF pc \in Final THEN 0
    ELSE (Len(ExpectedBlocks) - Len(visited)) * (N + 2)
         + (IF pc = "for" THEN N - i_N + 1 ELSE 0) + 1

\* a call that has not ended can take a step: the retrieval raises or
\* returns a table, a regression outcome ends the call or has a sampling
\* outcome, and the loop tests are total
NotStuck ==
    \/ pc \in Final
    \/ /\ pc = "while" /\ stop_condition # 1
       /\ \/ BlockContext = <<>>
          \/ k > Rows(analogs)
          \/ KnnTables(BlockContext, k) # {}
    \/ /\ pc = "for" /\ i_N < N
       /\ \E o \in RegressionOutcomes(i_N) : o.exit # "none" \/ SamplingOutcomes(o) # {}
    \/ pc = "for" /\ i_N = N
    \/ pc = "while" /\ stop_condition = 1

C9_Frame ==
    [][/\ args' = args
       /\ \A i \in 0..(N - 1) : \A c \in 0..(n - 1) :
             c \notin Range(i_var') =>
                 xf'[i][c] = xf[i][c] /\ xf_mean'[i][c] = xf_mean[i][c]]_vars

C9_Witness ==
    /\ pc = "for" /\ i_N > 0 /\ visited = << <<0>>, <<1>> >>
    /\ xf_mean[0][0] # Zero /\ xf_mean[0][1] # Zero
    /\ xf[0][0] # Zero /\ xf[0][1] # Zero

\* C10: with locally-constant or incremental regression, for the member
\* just processed the denominator 1 - sum w^2 is nonzero and every entry
\* of the covariance is finite, for every k >= 1.
C10_CovarianceWellDefined ==
    (regression \in {"locally_constant", "increment"} /\ pc = "for" /\ i_N > 0) =>
        /\ RSub(One, SumSq(weights[i_N - 1])) # Zero
        /\ \A a, b \in TargetCols : IsFinite(cov_xf[a][b])

====
